---- MODULE Spec2Model ----
(***************************************************************************)
(* Model of src/main.py: a linear script that checks two environment      *)
(* variables, reads a topic, builds two agents and two tasks, hands them   *)
(* to the framework's sequential executor (crew.kickoff) and reports on    *)
(* the result and on the file article.md.                                  *)
(*                                                                         *)
(* Text.  A Python str is modelled as a sequence of tokens.  A token is    *)
(* either one character of typed input or file content, or one string      *)
(* literal of the source taken whole.  Concatenation and f-string          *)
(* interpolation are \o.                                                   *)
(*                                                                         *)
(* Environment.  The model starts from every combination of the two        *)
(* environment variables, of the line typed at the prompt and of the       *)
(* article.md left in the working directory.  It assumes what the script   *)
(* itself assumes: standard input delivers a line, printing succeeds, the  *)
(* framework's constructors return, and article.md, when it exists, is a   *)
(* readable UTF-8 text file.                                               *)
(***************************************************************************)
EXTENDS Integers, Sequences, FiniteSets, TLC

----------------------------------------------------------------------------
\* Bounds of the model.

\* Longest line typed at the prompt, in characters.
MaxLen == 3

\* Longest content of article.md, in characters.
MaxArticleLen == 2

----------------------------------------------------------------------------
\* String literals of the source.

\* src/main.py:22-35
BACKGROUND_CONTEXT ==
    "You bring together experiences such as:\n- Guiding Stanford's Ethics, Technology, and Public Policy cohort alongside\n  Professors Mehran Sahami, Jeremy Weinstein, and Rob Reich\n- Examining artificial intelligence and software innovations as a U.S. Patent\n  Examiner and GAO technology auditor\n- Advising Federal leaders across the White House, OMB, SBA, GSA, and the\n  Department of Education on data transparency, emerging technology, and\n  digital service delivery\n- Championing human-centered design at IDEO and launching civic technology and\n  economic development initiatives with governments, nonprofits, and industry\n- Supporting academic and civic communities at the University of Pennsylvania,\n  University of Michigan, USC, and international forums such as UNICEF USA\nUse this lived experience to ground every analysis, highlight ethical and\nequity implications, and surface cross-sector collaboration opportunities."

\* src/main.py:50-50
ResearchRole ==
    "Ethics and Emerging Technology Research Lead"

\* src/main.py:52-54
ResearchGoal ==
    "Synthesize cross-sector research into AI governance, civic technology, and human-centered innovation so complex topics are ready for policy and design discussions."

\* src/main.py:57-60
ResearchBackstory ==
    "You guide conversations on technology ethics at Stanford, advise on AI accountability from service at the U.S. Government Accountability Office and the U.S. Patent and Trademark Office, and translate research for public servants, engineers, and designers."

\* src/main.py:72-72
WriterRole ==
    "Policy Communicator and Storyteller"

\* src/main.py:74-75
WriterGoal ==
    "Transform nuanced research into compelling narratives with clear recommendations for civic leaders, technologists, and academics."

\* src/main.py:78-81
WriterBackstory ==
    "Drawing on experience moderating discussions with global leaders, crafting GAO reports for Congress, and briefing White House stakeholders, you excel at weaving evidence, ethics, and inclusive design into accessible writing."

\* src/main.py:91-102
ResearchDescription1 ==
    "Investigate the topic: "

\* src/main.py:91-102
ResearchDescription2 ==
    "\n\n    Anchor your thinking in the following background:\n    "

\* src/main.py:91-102
ResearchDescription3 ==
    "\n\n    Focus your review on:\n    1. Ethical, societal, and economic implications across government, industry, and civil society\n    2. Practical case studies from Federal initiatives, academia, and mission-driven organizations\n    3. Key policy, legal, and governance debates shaping the technology's deployment\n    4. Opportunities to align innovation with public interest outcomes and inclusive design\n\n    Deliver concise, sourced findings suitable for collaboration with product, policy, and research partners."

\* src/main.py:104-109
ResearchExpectedOutput ==
    "A structured research memo that includes:\n    - Executive summary highlighting the most relevant developments\n    - Table of key benefits, risks, and mitigation strategies\n    - Case studies with short annotations on impact and lessons learned\n    - Policy or governance considerations with references\n    - Bibliography of credible sources consulted"

\* src/main.py:121-134
WritingDescription1 ==
    "Using the research findings, craft a policy-oriented article on: "

\* src/main.py:121-134
WritingDescription2 ==
    "\n\n    Keep this lived experience in mind while writing:\n    "

\* src/main.py:121-134
WritingDescription3 ==
    "\n\n    Requirements:\n    1. Open with a concise briefing that situates the issue for technology and policy leaders\n    2. Organize sections for context, current state of the field, governance considerations, and future outlook\n    3. Showcase real-world examples that resonate with multi-sector stakeholders\n    4. Recommend actionable steps for researchers, product teams, and public officials\n    5. Save the article to 'article.md' in Markdown format\n\n    Aim for 800-1000 words with clear headings and accessible explanations.\n    Maintain a tone that reflects a collaborative civic technologist."

\* src/main.py:136-141
WritingExpectedOutput ==
    "A Markdown article saved as 'article.md' containing:\n    - Briefing-style introduction\n    - Thematic sections with descriptive headings\n    - Integrated examples and stakeholder perspectives\n    - Actionable recommendations and closing reflection\n    - Reference list for further reading"

\* src/main.py:187
DefaultTopic ==
    <<"Public interest safeguards for generative AI systems">>

----------------------------------------------------------------------------
\* Python values.

\* Python's None (os.getenv of an unset variable). It is not a value any
\* environment variable takes in EnvValues.
None == "None"

\* Truth value of an Optional[str]: None and "" are falsy.
Truthy(v) == v # None /\ v # ""

\* Characters str.strip() removes.
Whitespace == {" ", "\t"}

\* Characters of a typed line.
Alphabet == Whitespace \cup {"a"}

\* All sequences over S of length at most n.
SeqUpTo(S, n) == UNION {[1..k -> S] : k \in 0..n}

\* str.lstrip(): drop the leading whitespace.
RECURSIVE lstrip(_)
lstrip(s) ==
    IF s # <<>> /\ Head(s) \in Whitespace THEN lstrip(Tail(s)) ELSE s

\* str.rstrip(): drop the trailing whitespace.
RECURSIVE rstrip(_)
rstrip(s) ==
    IF s # <<>> /\ s[Len(s)] \in Whitespace
    THEN rstrip(SubSeq(s, 1, Len(s) - 1))
    ELSE s

\* Mutant of strip: only the leading whitespace is removed.
strip_leading_only(s) == lstrip(s)

\* str.strip()
strip(s) == rstrip(lstrip(s))

----------------------------------------------------------------------------
\* State.

VARIABLES
    env,            \* os.environ, restricted to the two variables consulted
    stdin,          \* the line the user types at the prompt
    article,        \* the file article.md in the working directory
    pc,             \* position of main()
    out,            \* standard output: the sequence of print() calls
    calls,          \* the calls main() has made, in order
    topic,          \* main's local topic
    researcher,     \* main's local researcher
    writer,         \* main's local writer
    research_task,  \* main's local research_task
    writing_task,   \* main's local writing_task
    crew,           \* main's local crew
    events,         \* task starts and finishes inside crew.kickoff()
    wrote,          \* whether this run's FileWriterTool has written article.md
    exc,            \* the exception crew.kickoff() raised, if any
    final_output    \* main's local final_output

vars ==
    <<env, stdin, article, pc, out, calls, topic, researcher, writer,
      research_task, writing_task, crew, events, wrote, exc, final_output>>

\* Values an environment variable may have: unset, empty, non-empty.
EnvValues == {None, "", "key"}

EnvNames == {"OPENAI_API_KEY", "SERPER_API_KEY"}

\* Lines the user may type (input() returns the line without its newline):
\* every short line over Alphabet, and the text of the default topic itself.
Lines == SeqUpTo(Alphabet, MaxLen) \cup {DefaultTopic}

\* Contents of article.md.
ArticleContents == SeqUpTo({"x"}, MaxArticleLen)

NoFile == [exists |-> FALSE, content |-> <<>>]

File(c) == [exists |-> TRUE, content |-> c]

\* An exception object with its message.
Exception(message) == [class |-> "Exception", message |-> message]

\* str(exc)
str(e) == e.message

\* Exceptions crew.kickoff() may raise.
Exceptions == {Exception("Incorrect API key provided"), Exception("Connection error.")}

\* A local variable that is not assigned yet.
Unbound == [class |-> "NoneType"]

\* os.getenv(name)
getenv(name) == env[name]

\* One print() call: a fixed text and, for an f-string, the value put in it.
Msg(text) == [text |-> text, arg |-> <<>>]

MsgArg(text, arg) == [text |-> text, arg |-> arg]

----------------------------------------------------------------------------
\* Factories.

\* Mutant of maybe_create_serper_tool: the key is tested with "is not None".
maybe_create_serper_tool_if_not_none ==
    IF getenv("SERPER_API_KEY") # None THEN <<"SerperDevTool">> ELSE <<>>

\* _maybe_create_serper_tool()
maybe_create_serper_tool ==
    IF Truthy(getenv("SERPER_API_KEY")) THEN <<"SerperDevTool">> ELSE <<>>

\* create_research_agent()
create_research_agent ==
    [class            |-> "Agent",
     role             |-> ResearchRole,
     goal             |-> ResearchGoal,
     backstory        |-> ResearchBackstory,
     tools            |-> maybe_create_serper_tool,
     verbose          |-> TRUE,
     allow_delegation |-> FALSE]

\* create_writer_agent()
create_writer_agent ==
    [class            |-> "Agent",
     role             |-> WriterRole,
     goal             |-> WriterGoal,
     backstory        |-> WriterBackstory,
     tools            |-> <<"FileWriterTool">>,
     verbose          |-> TRUE,
     allow_delegation |-> FALSE]

\* create_research_task(agent, topic)
create_research_task(agent, t) ==
    [class           |-> "Task",
     description     |-> <<ResearchDescription1>> \o t
                         \o <<ResearchDescription2, BACKGROUND_CONTEXT,
                              ResearchDescription3>>,
     expected_output |-> <<ResearchExpectedOutput>>,
     agent           |-> agent,
     context         |-> <<>>,
     async_execution |-> FALSE]

\* Mutant of create_writing_task: the description names the default topic
\* instead of the topic passed in.
create_writing_task_fixed_topic(agent, rtask, t) ==
    [class           |-> "Task",
     description     |-> <<WritingDescription1>> \o DefaultTopic
                         \o <<WritingDescription2, BACKGROUND_CONTEXT,
                              WritingDescription3>>,
     expected_output |-> <<WritingExpectedOutput>>,
     agent           |-> agent,
     context         |-> <<rtask>>,
     async_execution |-> FALSE]

\* create_writing_task(agent, research_task, topic)
create_writing_task(agent, rtask, t) ==
    [class           |-> "Task",
     description     |-> <<WritingDescription1>> \o t
                         \o <<WritingDescription2, BACKGROUND_CONTEXT,
                              WritingDescription3>>,
     expected_output |-> <<WritingExpectedOutput>>,
     agent           |-> agent,
     context         |-> <<rtask>>,
     async_execution |-> FALSE]

\* Mutant of make_crew: the two tasks are listed in the other order.
make_crew_tasks_swapped(r, w, rt, wt) ==
    [class   |-> "Crew",
     agents  |-> <<r, w>>,
     tasks   |-> <<wt, rt>>,
     process |-> "sequential",
     verbose |-> TRUE]

\* Crew(agents=[researcher, writer], tasks=[research_task, writing_task],
\*      process=Process.sequential, verbose=True)
make_crew(r, w, rt, wt) ==
    [class   |-> "Crew",
     agents  |-> <<r, w>>,
     tasks   |-> <<rt, wt>>,
     process |-> "sequential",
     verbose |-> TRUE]

----------------------------------------------------------------------------
\* Texts printed by the script.

WarningHeader == "Warning: the following environment variables are not set:"

WarningItem == " - "

WarningFooter ==
    "Set the required keys before running the crew to avoid runtime errors."

SerperNote ==
    "Note: SERPER_API_KEY is not configured. Web search will be skipped, but the crew can still operate with available context."

Prompt == "Enter a topic to explore: "

NoTopicProvided == "No topic provided. Using default: "

TopicLine == "\nTopic: "

FailureHeader == "\nCrew execution did not complete successfully."

FailureReason == "Reason: "

FailureHint ==
    "Verify API credentials and network access, then re-run the script."

SuccessHeader == "\nCrew execution completed successfully."

FinalOutputHeader == "Final Output:\n"

ArticleSaved == "\nArticle saved to 'article.md'."

ArticleLength == "Article length: "

ArticleNotCreated ==
    "\nThe file 'article.md' was not created. Confirm that the FileWriterTool is configured correctly."

\* "=" * 50
Rule == "=================================================="

----------------------------------------------------------------------------
\* main() up to the pipeline invocation.

\* _print_intro()
print_intro == <<Msg("Welcome"), Msg(Rule)>>

\* Mutant of missing_keys: the key is tested with "is None".
missing_keys_if_none ==
    IF getenv("OPENAI_API_KEY") = None THEN <<"OPENAI_API_KEY">> ELSE <<>>

\* The list missing built by _warn_about_missing_keys().
missing_keys ==
    IF ~Truthy(getenv("OPENAI_API_KEY")) THEN <<"OPENAI_API_KEY">> ELSE <<>>

\* Whether _warn_about_missing_keys() takes its SERPER_API_KEY branch.
serper_is_none == getenv("SERPER_API_KEY") = None

\* What _warn_about_missing_keys() prints.
warn_about_missing_keys ==
    (IF missing_keys # <<>>
     THEN <<Msg(WarningHeader)>>
          \o [i \in 1..Len(missing_keys) |-> MsgArg(WarningItem, missing_keys[i])]
          \o <<Msg(WarningFooter)>>
     ELSE <<>>)
    \o (IF serper_is_none THEN <<Msg(SerperNote)>> ELSE <<>>)

\* topic after lines 185-187: the stripped line, or the default when blank.
topic_of(line) ==
    IF strip(line) = <<>> THEN DefaultTopic ELSE strip(line)

\* main, line 182
PrintIntro ==
    /\ pc = "intro"
    /\ out' = out \o print_intro
    /\ calls' = Append(calls, "_print_intro")
    /\ pc' = "warn"
    /\ UNCHANGED <<env, stdin, article, topic, researcher, writer,
                   research_task, writing_task, crew, events, wrote, exc,
                   final_output>>

\* Mutant of WarnAboutMissingKeys: the script exits when a key is missing.
WarnAboutMissingKeysAndExit ==
    /\ pc = "warn"
    /\ out' = out \o warn_about_missing_keys
    /\ calls' = Append(calls, "_warn_about_missing_keys")
    /\ pc' = IF missing_keys # <<>> \/ serper_is_none THEN "done" ELSE "prompt"
    /\ UNCHANGED <<env, stdin, article, topic, researcher, writer,
                   research_task, writing_task, crew, events, wrote, exc,
                   final_output>>

\* main, line 183
WarnAboutMissingKeys ==
    /\ pc = "warn"
    /\ out' = out \o warn_about_missing_keys
    /\ calls' = Append(calls, "_warn_about_missing_keys")
    /\ pc' = "prompt"
    /\ UNCHANGED <<env, stdin, article, topic, researcher, writer,
                   research_task, writing_task, crew, events, wrote, exc,
                   final_output>>

\* main, lines 185-191
ReadTopic ==
    /\ pc = "prompt"
    /\ topic' = topic_of(stdin)
    /\ out' = out
              \o <<Msg(Prompt)>>
              \o (IF strip(stdin) = <<>>
                  THEN <<MsgArg(NoTopicProvided, DefaultTopic)>>
                  ELSE <<>>)
              \o <<MsgArg(TopicLine, topic'), Msg(Rule)>>
    /\ calls' = Append(calls, "input")
    /\ pc' = "agents"
    /\ UNCHANGED <<env, stdin, article, researcher, writer, research_task,
                   writing_task, crew, events, wrote, exc, final_output>>

\* main, lines 193-195
ConfigureAgents ==
    /\ pc = "agents"
    /\ out' = Append(out, Msg("\nConfiguring agents based on public service and design experience..."))
    /\ researcher' = create_research_agent
    /\ writer' = create_writer_agent
    /\ calls' = calls \o <<"create_research_agent", "create_writer_agent">>
    /\ pc' = "tasks"
    /\ UNCHANGED <<env, stdin, article, topic, research_task, writing_task,
                   crew, events, wrote, exc, final_output>>

\* main, lines 197-199
DefineTasks ==
    /\ pc = "tasks"
    /\ out' = Append(out, Msg("Defining tasks aligned to research and storytelling workflows..."))
    /\ research_task' = create_research_task(researcher, topic)
    /\ writing_task' = create_writing_task(writer, research_task', topic)
    /\ calls' = calls \o <<"create_research_task", "create_writing_task">>
    /\ pc' = "crew"
    /\ UNCHANGED <<env, stdin, article, topic, researcher, writer, crew,
                   events, wrote, exc, final_output>>

\* main, lines 201-207
LaunchCrew ==
    /\ pc = "crew"
    /\ out' = Append(out, Msg("\nLaunching the sequential crew..."))
    /\ crew' = make_crew(researcher, writer, research_task, writing_task)
    /\ calls' = Append(calls, "Crew")
    /\ pc' = "kickoff"
    /\ UNCHANGED <<env, stdin, article, topic, researcher, writer,
                   research_task, writing_task, events, wrote, exc,
                   final_output>>

----------------------------------------------------------------------------
\* crew.kickoff(): the framework's executor, as far as main() can observe
\* it.  Under Process.sequential the tasks are taken in list order; a task
\* with async_execution=False runs to completion before the next one is
\* taken, and waits for every task started before it.  A task acts through
\* the tools of its agent only, so article.md is written only by a task
\* whose agent carries the FileWriterTool.  The call either returns the
\* output of the last task or raises.

Started(i) == \E k \in DOMAIN events : events[k] = [ev |-> "start", task |-> i]

Finished(i) == \E k \in DOMAIN events : events[k] = [ev |-> "finish", task |-> i]

\* Index in crew.tasks of the next task to take.
NextTask == Cardinality({k \in DOMAIN events : events[k].ev = "start"}) + 1

\* main, line 210: the call is made
Kickoff ==
    /\ pc = "kickoff"
    /\ calls' = Append(calls, "kickoff")
    /\ pc' = "running"
    /\ UNCHANGED <<env, stdin, article, out, topic, researcher, writer,
                   research_task, writing_task, crew, events, wrote, exc,
                   final_output>>

\* The executor takes the next task of crew.tasks.
StartTask ==
    /\ pc = "running"
    /\ crew.process = "sequential"
    /\ NextTask <= Len(crew.tasks)
    /\ \/ crew.tasks[NextTask].async_execution
       \/ \A i \in 1..Len(crew.tasks) : Started(i) => Finished(i)
    /\ events' = Append(events, [ev |-> "start", task |-> NextTask])
    /\ UNCHANGED <<env, stdin, article, pc, out, calls, topic, researcher,
                   writer, research_task, writing_task, crew, wrote, exc,
                   final_output>>

\* A running task completes; its agent may have used its FileWriterTool to
\* write article.md, or may not have.
FinishTask ==
    /\ pc = "running"
    /\ \E i \in 1..Len(crew.tasks) :
        /\ Started(i)
        /\ ~Finished(i)
        /\ events' = Append(events, [ev |-> "finish", task |-> i])
        /\ \/ UNCHANGED <<article, wrote>>
           \/ /\ \E k \in DOMAIN crew.tasks[i].agent.tools :
                    crew.tasks[i].agent.tools[k] = "FileWriterTool"
              /\ \E c \in ArticleContents : article' = File(c)
              /\ wrote' = TRUE
    /\ UNCHANGED <<env, stdin, pc, out, calls, topic, researcher, writer,
                   research_task, writing_task, crew, exc, final_output>>

\* crew.kickoff() raises (an LLM, network or tool failure at any point).
KickoffRaise ==
    /\ pc = "running"
    /\ \E e \in Exceptions : exc' = e
    /\ pc' = "except"
    /\ UNCHANGED <<env, stdin, article, out, calls, topic, researcher,
                   writer, research_task, writing_task, crew, events, wrote,
                   final_output>>

\* crew.kickoff() returns once every task has completed.
KickoffReturn ==
    /\ pc = "running"
    /\ \A i \in 1..Len(crew.tasks) : Finished(i)
    /\ final_output' = [class |-> "CrewOutput", task |-> Len(crew.tasks)]
    /\ pc' = "success"
    /\ UNCHANGED <<env, stdin, article, out, calls, topic, researcher,
                   writer, research_task, writing_task, crew, events, wrote,
                   exc>>

----------------------------------------------------------------------------
\* main() after the pipeline invocation.

\* Mutant of HandleException: the return of line 217 is missing, so main
\* goes on to the success report.
HandleExceptionNoReturn ==
    /\ pc = "except"
    /\ out' = out \o <<Msg(FailureHeader), MsgArg(FailureReason, str(exc)),
                       Msg(FailureHint)>>
    /\ pc' = "success"
    /\ UNCHANGED <<env, stdin, article, calls, topic, researcher, writer,
                   research_task, writing_task, crew, events, wrote, exc,
                   final_output>>

\* main, lines 211-217: the except branch
HandleException ==
    /\ pc = "except"
    /\ out' = out \o <<Msg(FailureHeader), MsgArg(FailureReason, str(exc)),
                       Msg(FailureHint)>>
    /\ pc' = "done"
    /\ UNCHANGED <<env, stdin, article, calls, topic, researcher, writer,
                   research_task, writing_task, crew, events, wrote, exc,
                   final_output>>

\* main, lines 219-222
ReportSuccess ==
    /\ pc = "success"
    /\ out' = out \o <<Msg(SuccessHeader), Msg(Rule), Msg(FinalOutputHeader),
                       MsgArg("", final_output)>>
    /\ pc' = "article"
    /\ UNCHANGED <<env, stdin, article, calls, topic, researcher, writer,
                   research_task, writing_task, crew, events, wrote, exc,
                   final_output>>

\* os.path.exists("article.md")
article_exists == article.exists

\* Mutant of article_report: the branch tests the content read, not the
\* existence of the file, so an empty article.md counts as missing.
article_report_by_content ==
    IF article.exists /\ article.content # <<>>
    THEN <<Msg(ArticleSaved), MsgArg(ArticleLength, Len(article.content))>>
    ELSE <<Msg(ArticleNotCreated)>>

\* What lines 224-233 print.
article_report ==
    IF article_exists
    THEN <<Msg(ArticleSaved), MsgArg(ArticleLength, Len(article.content))>>
    ELSE <<Msg(ArticleNotCreated)>>

\* Mutant of CheckArticle: article.md is opened for writing, which
\* truncates it.
CheckArticleTruncating ==
    /\ pc = "article"
    /\ out' = out \o article_report
    /\ article' = IF article_exists THEN File(<<>>) ELSE article
    /\ calls' = Append(calls, "os.path.exists")
    /\ pc' = "done"
    /\ UNCHANGED <<env, stdin, topic, researcher, writer, research_task,
                   writing_task, crew, events, wrote, exc, final_output>>

\* main, lines 224-233
CheckArticle ==
    /\ pc = "article"
    /\ out' = out \o article_report
    /\ calls' = Append(calls, "os.path.exists")
    /\ pc' = "done"
    /\ UNCHANGED <<env, stdin, article, topic, researcher, writer,
                   research_task, writing_task, crew, events, wrote, exc,
                   final_output>>

----------------------------------------------------------------------------
\* The program.

Init ==
    /\ env \in [EnvNames -> EnvValues]
    /\ stdin \in Lines
    /\ article \in {NoFile} \cup {File(c) : c \in ArticleContents}
    /\ pc = "intro"
    /\ out = <<>>
    /\ calls = <<>>
    /\ topic = Unbound
    /\ researcher = Unbound
    /\ writer = Unbound
    /\ research_task = Unbound
    /\ writing_task = Unbound
    /\ crew = Unbound
    /\ events = <<>>
    /\ wrote = FALSE
    /\ exc = Unbound
    /\ final_output = Unbound

Next ==
    \/ PrintIntro
    \/ WarnAboutMissingKeys
    \/ ReadTopic
    \/ ConfigureAgents
    \/ DefineTasks
    \/ LaunchCrew
    \/ Kickoff
    \/ StartTask
    \/ FinishTask
    \/ KickoffRaise
    \/ KickoffReturn
    \/ HandleException
    \/ ReportSuccess
    \/ CheckArticle

Spec == Init /\ [][Next]_vars

----------------------------------------------------------------------------
\* Properties.

\* text has been printed
Printed(text) == \E i \in DOMAIN out : out[i].text = text

\* text has been printed with arg put in it
PrintedWith(text, arg) ==
    \E i \in DOMAIN out : out[i].text = text /\ out[i].arg = arg

\* the i-th print() call printed text, with arg put in it
IsMsg(i, text, arg) ==
    i \in DOMAIN out /\ out[i].text = text /\ out[i].arg = arg

\* number of times text has been printed
TimesPrinted(text) == Cardinality({i \in DOMAIN out : out[i].text = text})

\* number of times main has called f
TimesCalled(f) == Cardinality({i \in DOMAIN calls : calls[i] = f})

\* main is past the step at position p
Past(p) ==
    LET order == <<"intro", "warn", "prompt", "agents", "tasks", "crew",
                   "kickoff", "running">>
        at(q) == IF \E i \in DOMAIN order : order[i] = q
                 THEN CHOOSE i \in DOMAIN order : order[i] = q
                 ELSE Len(order) + 1
    IN  at(pc) > at(p)

\* sub occurs in s
Contains(s, sub) ==
    \E i \in 0..(Len(s) - Len(sub)) : SubSeq(s, i + 1, i + Len(sub)) = sub

\* line is empty or whitespace only
Blank(line) == \A i \in DOMAIN line : line[i] \in Whitespace

\* t is line without its leading and trailing whitespace
Stripped(line, t) ==
    /\ t # <<>>
    /\ t[1] \notin Whitespace
    /\ t[Len(t)] \notin Whitespace
    /\ \E i \in 0..Len(line) :
        /\ i + Len(t) <= Len(line)
        /\ SubSeq(line, i + 1, i + Len(t)) = t
        /\ \A k \in 1..i : line[k] \in Whitespace
        /\ \A k \in (i + Len(t) + 1)..Len(line) : line[k] \in Whitespace

\* C1: once the topic is read, the default topic is substituted (and the
\* "No topic provided" line printed) exactly when the typed line is empty or
\* whitespace only; for every other line the topic is the line without its
\* leading and trailing whitespace and the "No topic provided" line is not
\* printed.
C1_DefaultTopicIffBlank ==
    Past("prompt") =>
        /\ (topic = DefaultTopic /\ Printed(NoTopicProvided)) <=> Blank(stdin)
        /\ Printed(NoTopicProvided) <=> Blank(stdin)
        /\ ~Blank(stdin) => Stripped(stdin, topic)
        /\ PrintedWith(TopicLine, topic)

\* C1 witness: a line with whitespace on both sides and inside was read.
C1_Witness ==
    /\ Past("prompt")
    /\ stdin = <<" ", "a", "\t">>
    /\ topic = <<"a">>

\* C2 as claimed: each missing-key message is printed exactly when its
\* variable is unset.
C2_WarnIffUnset ==
    Past("warn") =>
        /\ Printed(WarningHeader) <=> env["OPENAI_API_KEY"] = None
        /\ Printed(SerperNote) <=> env["SERPER_API_KEY"] = None

\* C2 amended: the OPENAI_API_KEY warning (header, the key's name, footer) is
\* printed exactly when OPENAI_API_KEY is unset or empty; the SERPER_API_KEY
\* note is printed exactly when SERPER_API_KEY is unset.
C2_WarnIffUnsetOrEmpty ==
    Past("warn") =>
        /\ Printed(WarningHeader) <=> env["OPENAI_API_KEY"] \in {None, ""}
        /\ Printed(WarningHeader) <=> PrintedWith(WarningItem, "OPENAI_API_KEY")
        /\ Printed(WarningHeader) <=> Printed(WarningFooter)
        /\ TimesPrinted(WarningItem) <= 1
        /\ Printed(SerperNote) <=> env["SERPER_API_KEY"] = None

\* C2 witness: both variables are set to the empty string; the warning is
\* printed and the note is not.
C2_Witness ==
    /\ Past("warn")
    /\ env["OPENAI_API_KEY"] = ""
    /\ env["SERPER_API_KEY"] = ""
    /\ Printed(WarningHeader)
    /\ ~Printed(SerperNote)

\* C3: once crew.kickoff() has raised, main prints the failure message, the
\* reason with the exception's text and the hint, in this order and as its
\* last output, and ends: kickoff has been called once and is not called
\* again, neither the success message nor the final output nor an article
\* message is printed, and the existence of article.md is not tested.
C3_FailureEndsRun ==
    exc # Unbound =>
        /\ pc \in {"except", "done"}
        /\ TimesCalled("kickoff") = 1
        /\ TimesCalled("os.path.exists") = 0
        /\ ~Printed(SuccessHeader)
        /\ ~Printed(FinalOutputHeader)
        /\ ~Printed(ArticleSaved)
        /\ ~Printed(ArticleNotCreated)
        /\ final_output = Unbound
        /\ pc = "done" =>
              /\ IsMsg(Len(out) - 2, FailureHeader, <<>>)
              /\ IsMsg(Len(out) - 1, FailureReason, str(exc))
              /\ IsMsg(Len(out), FailureHint, <<>>)
              /\ TimesPrinted(FailureHeader) = 1

\* C3 witness: kickoff raised after the writing task had written article.md,
\* and main has ended.
C3_Witness ==
    /\ pc = "done"
    /\ exc = Exception("Connection error.")
    /\ wrote
    /\ Printed(FailureHint)

C5_SearchToolIffSet ==
    Past("agents") =>
        /\ researcher.tools = <<"SerperDevTool">> <=> env["SERPER_API_KEY"] # None
        /\ researcher.tools = <<>> <=> env["SERPER_API_KEY"] = None
        /\ writer.tools = <<"FileWriterTool">>

\* C5 amended: the research agent carries the web-search tool exactly when
\* SERPER_API_KEY is set to a non-empty value, and no tool at all otherwise;
\* the writer agent carries exactly one file-writer tool whatever the
\* environment.
C5_SearchToolIffNonEmpty ==
    Past("agents") =>
        /\ researcher.tools = <<"SerperDevTool">> <=>
              env["SERPER_API_KEY"] \notin {None, ""}
        /\ researcher.tools = <<>> <=> env["SERPER_API_KEY"] \in {None, ""}
        /\ writer.tools = <<"FileWriterTool">>

\* C5 witness: SERPER_API_KEY is set to the empty string and the research
\* agent was built without tools.
C5_Witness ==
    /\ Past("agents")
    /\ env["SERPER_API_KEY"] = ""
    /\ researcher.tools = <<>>
    /\ writer.tools = <<"FileWriterTool">>

\* position of task t in the crew's task list
IsTask(i, t) == i \in DOMAIN crew.tasks /\ crew.tasks[i] = t

\* C6: the crew handed to the executor lists exactly the research task and
\* then the writing task under the sequential process, both tasks are not
\* asynchronous, the writing task's context is exactly this run's research
\* task, each task is assigned to its agent, and in the execution the
\* writing task starts only after the research task has finished.
C6_ResearchBeforeWriting ==
    Past("crew") =>
        /\ crew.tasks = <<research_task, writing_task>>
        /\ crew.process = "sequential"
        /\ research_task # writing_task
        /\ ~research_task.async_execution
        /\ ~writing_task.async_execution
        /\ writing_task.context = <<research_task>>
        /\ research_task.agent = researcher
        /\ writing_task.agent = writer
        /\ researcher.role = ResearchRole
        /\ writer.role = WriterRole
        /\ \A k \in DOMAIN events :
              (events[k].ev = "start" /\ IsTask(events[k].task, writing_task)) =>
                  \E j \in 1..(k - 1) :
                      /\ events[j].ev = "finish"
                      /\ IsTask(events[j].task, research_task)

\* C6 witness: the writing task is running.
C6_Witness ==
    /\ pc = "running"
    /\ \E i \in DOMAIN crew.tasks :
          IsTask(i, writing_task) /\ Started(i) /\ ~Finished(i)

\* C7: whatever the environment and the typed line, the research agent has
\* the role "Ethics and Emerging Technology Research Lead" and the writer
\* agent the role "Policy Communicator and Storyteller", each with its fixed
\* goal and backstory and with delegation disabled; and both task
\* descriptions contain the run's topic, right after their opening words,
\* and the background context.
C7_FactoriesCarryLiterals ==
    /\ Past("agents") =>
        /\ researcher.role = "Ethics and Emerging Technology Research Lead"
        /\ researcher.goal = ResearchGoal
        /\ researcher.backstory = ResearchBackstory
        /\ ~researcher.allow_delegation
        /\ writer.role = "Policy Communicator and Storyteller"
        /\ writer.goal = WriterGoal
        /\ writer.backstory = WriterBackstory
        /\ ~writer.allow_delegation
    /\ Past("tasks") =>
        /\ Contains(research_task.description,
                    <<"Investigate the topic: ">> \o topic)
        /\ Contains(research_task.description, <<BACKGROUND_CONTEXT>>)
        /\ Contains(writing_task.description,
                    <<"Using the research findings, craft a policy-oriented article on: ">>
                    \o topic)
        /\ Contains(writing_task.description, <<BACKGROUND_CONTEXT>>)

\* C7 witness: the tasks were built for a typed topic with whitespace inside,
\* with neither key set.
C7_Witness ==
    /\ Past("tasks")
    /\ topic = <<"a", " ", "a">>
    /\ env["OPENAI_API_KEY"] = None
    /\ env["SERPER_API_KEY"] = None
    /\ Contains(writing_task.description, topic)

\* the order in which main makes its calls
CallOrder ==
    <<"_print_intro", "_warn_about_missing_keys", "input",
      "create_research_agent", "create_writer_agent", "create_research_task",
      "create_writing_task", "Crew", "kickoff", "os.path.exists">>

\* C8: whatever the two keys and the typed line, main makes its calls in the
\* fixed order (key warnings, prompt, agents, tasks, crew, kickoff), never
\* stops before the pipeline invocation, and invokes the pipeline exactly
\* once per run, with tasks built for a non-empty topic.
C8_MissingKeyNeverStopsRun ==
    /\ Len(calls) <= Len(CallOrder)
    /\ calls = SubSeq(CallOrder, 1, Len(calls))
    /\ pc = "done" => TimesCalled("kickoff") = 1
    /\ pc # "done" => ENABLED Next
    /\ TimesCalled("kickoff") = 1 =>
        /\ topic # <<>>
        /\ crew.tasks[1].description
              = <<ResearchDescription1>> \o topic
                \o <<ResearchDescription2, BACKGROUND_CONTEXT,
                     ResearchDescription3>>

\* C8 witness: a run with neither key set and a blank line has ended after
\* invoking the pipeline.
C8_Witness ==
    /\ pc = "done"
    /\ env["OPENAI_API_KEY"] = None
    /\ env["SERPER_API_KEY"] = None
    /\ Blank(stdin)
    /\ TimesCalled("kickoff") = 1

\* C9 as claimed: within one run the SERPER_API_KEY note is printed exactly
\* when the research agent is built without the web-search tool.
C9_NoteIffNoSearchTool ==
    Past("agents") =>
        (Printed(SerperNote) <=>
            ~\E k \in DOMAIN researcher.tools : researcher.tools[k] = "SerperDevTool")

\* C10 as claimed: the "saved" message is printed only in a run whose
\* writing step wrote article.md.
C10_SavedOnlyIfWritten == Printed(ArticleSaved) => wrote

\* C10 amended: main itself never creates, overwrites or deletes article.md
\* (the file changes only while crew.kickoff() runs, by a task's
\* FileWriterTool), and the "saved" message is printed only after the
\* pipeline has returned and when article.md exists at the check, whether
\* or not this run wrote it.
C10_SavedOnlyIfExists ==
    /\ [][article' # article => (pc = "running" /\ pc' = "running" /\ wrote')]_vars
    /\ [](Printed(ArticleSaved) =>
            (final_output # Unbound /\ exc = Unbound /\ article.exists))

\* C10 witness: a file left over from an earlier run is reported as saved by
\* a run that did not write it.
C10_Witness ==
    /\ pc = "done"
    /\ Printed(ArticleSaved)
    /\ ~wrote

====
